---------------------------- MODULE Spec2Model ----------------------------
(***************************************************************************)
(* Model of src/Api/getScores.py: the match loop that tallies wins and     *)
(* losses per team and the final sort of the registered teams.             *)
(*                                                                         *)
(* A JSON value is a record [t, s, n]: t is its Python type, s the         *)
(* characters of a str, n the value of an int.  A key missing from a dict  *)
(* is the value Absent, which dict.get(key, default) turns into default.   *)
(***************************************************************************)
EXTENDS Integers, Sequences, FiniteSets, TLC

MaxLen == 3       \* longest input list of Spec
MaxPermLen == 3   \* longest input list of SpecPerm

----------------------------------------------------------------------------
(* Python values *)

Absent == [t |-> "absent", s |-> <<>>, n |-> 0]
PyNone == [t |-> "none", s |-> <<>>, n |-> 0]
PyInf == [t |-> "float_inf", s |-> <<>>, n |-> 0]
PyStr(cs) == [t |-> "str", s |-> cs, n |-> 0]
PyInt(k) == [t |-> "int", s |-> <<>>, n |-> k]

\* dict.get(key, default)
Get(v, default) == IF v.t = "absent" THEN default ELSE v

\* truth value of a Python object, as `not x` tests it
Truthy(v) ==
  CASE v.t = "str" -> v.s # <<>>
    [] v.t = "int" -> v.n # 0
    [] v.t = "float_inf" -> TRUE
    [] OTHER -> FALSE

DigitVal ==
  ("0" :> 0) @@ ("1" :> 1) @@ ("2" :> 2) @@ ("3" :> 3) @@ ("4" :> 4) @@
  ("5" :> 5) @@ ("6" :> 6) @@ ("7" :> 7) @@ ("8" :> 8) @@ ("9" :> 9)

RECURSIVE LStrip(_)
LStrip(cs) == IF cs # <<>> /\ Head(cs) = " " THEN LStrip(Tail(cs)) ELSE cs

RECURSIVE RStrip(_)
RStrip(cs) ==
  IF cs # <<>> /\ cs[Len(cs)] = " " THEN RStrip(SubSeq(cs, 1, Len(cs) - 1)) ELSE cs

RECURSIVE DigitsValue(_, _)
DigitsValue(cs, acc) ==
  IF cs = <<>> THEN acc ELSE DigitsValue(Tail(cs), 10 * acc + DigitVal[Head(cs)])

\* int(str): surrounding blanks, an optional sign, then decimal digits
IntOfStr(cs) ==
  LET body == RStrip(LStrip(cs))
      signed == body # <<>> /\ Head(body) \in {"+", "-"}
      digits == IF signed THEN Tail(body) ELSE body
  IN IF digits = <<>> \/ \E k \in 1..Len(digits) : digits[k] \notin DOMAIN DigitVal
       THEN [exc |-> "ValueError", val |-> 0]
       ELSE [exc |-> "",
             val |-> IF signed /\ Head(body) = "-"
                       THEN 0 - DigitsValue(digits, 0)
                       ELSE DigitsValue(digits, 0)]

\* int(x): the value, or the exception it raises
IntOf(v) ==
  CASE v.t = "int" -> [exc |-> "", val |-> v.n]
    [] v.t = "str" -> IntOfStr(v.s)
    [] v.t = "float_inf" -> [exc |-> "OverflowError", val |-> 0]
    [] OTHER -> [exc |-> "TypeError", val |-> 0]

----------------------------------------------------------------------------
(* Input records *)

Named(nm) == [has_name |-> TRUE, name |-> nm]
Anon == [has_name |-> FALSE, name |-> ""]

\* team.get("name", "Unknown")
NameOf(team) == IF team.has_name THEN team.name ELSE "Unknown"

Match(id, opps, w, f) ==
  [match2id |-> id, match2opponents |-> opps, winner |-> w, finished |-> f]

TeamNames == {"A", "B", "C", "Unknown"}

\* finished two-opponent records with a winner of "1" or "2", or the number 2
TalliedRecords ==
  { Match("m1", opps, PyStr(<<w>>), PyInt(1)) :
      opps \in { <<Named("A"), Named("B")>>, <<Named("B"), Named("A")>>,
                 <<Named("A"), Anon>>, <<Anon, Anon>> },
      w \in {"1", "2"} }
    \cup { Match("m1", <<Named("A"), Named("B")>>, PyInt(2), PyInt(1)) }

\* finished two-opponent records with some other winner value
OddWinnerRecords ==
  { Match("m2", <<Named("B"), Named("C")>>, w, PyInt(1)) :
      w \in { PyStr(<<"3">>), PyStr(<<"0">>), PyStr(<<"a", "b", "c">>), PyInt(0), PyInf } }

UnfinishedRecords ==
  { Match("m3", <<Named("A"), Named("C")>>, w, f) :
      w \in { PyStr(<<"1">>), PyStr(<<"a", "b", "c">>) }, f \in { Absent, PyInt(0) } }

NoWinnerRecords ==
  { Match("m4", <<Named("A"), Named("C")>>, w, PyInt(1)) :
      w \in { Absent, PyNone, PyStr(<<>>) } }

WrongCountRecords ==
  { Match("m5", opps, w, PyInt(1)) :
      opps \in { <<Named("C")>>, <<Named("A"), Named("B"), Named("C")>> },
      w \in { PyStr(<<"1">>), PyStr(<<"a", "b", "c">>) } }

Records ==
  TalliedRecords \cup OddWinnerRecords \cup UnfinishedRecords
    \cup NoWinnerRecords \cup WrongCountRecords

PermRecords ==
  { Match("m1", opps, PyStr(<<w>>), PyInt(1)) :
      opps \in { <<Named("A"), Named("B")>>, <<Named("B"), Named("A")>>,
                 <<Named("A"), Anon>> },
      w \in {"1", "2"} }
    \cup { Match("m2", <<Named("B"), Named("C")>>, PyStr(<<"a", "b", "c">>), PyInt(1)),
           Match("m3", <<Named("A"), Named("C")>>, PyStr(<<"1">>), PyInt(0)) }

SeqsUpTo(S, n) == UNION { [1..k -> S] : k \in 0..n }

Permutation(s, p) == [k \in 1..Len(s) |-> s[p[k]]]

Shuffles(s) ==
  { Permutation(s, p) : p \in { q \in [1..Len(s) -> 1..Len(s)] :
                                  \A a, b \in 1..Len(s) : q[a] = q[b] => a = b } }

----------------------------------------------------------------------------
(* Program state *)

VARIABLES
  matches,       \* the input list
  i,             \* 1-based position of the for loop
  wins,          \* dict name -> int
  loses,         \* dict name -> int
  teams,         \* list of registered names
  out,           \* diagnostics printed by the loop
  sorted_teams,  \* the ranking
  pc,            \* "loop", "done", or "aborted" (uncaught exception)
  run,           \* which execution of the script this is
  other,         \* input of the second execution
  first          \* result of the first execution

vars == <<matches, i, wins, loses, teams, out, sorted_teams, pc, run, other, first>>

EmptyDict == [nm \in {} |-> 0]

SetKey(d, k, v) == [x \in DOMAIN d \cup {k} |-> IF x = k THEN v ELSE d[x]]

Contains(s, x) == \E k \in 1..Len(s) : s[k] = x

\* SkipRecord without the test of the finished flag
SkipRecordIgnoringFinished(finished, winner, opponents) ==
  \/ ~Truthy(winner)
  \/ Len(opponents) # 2

\* the two skip checks at the head of the loop body
SkipRecord(finished, winner, opponents) ==
  \/ ~Truthy(finished) \/ ~Truthy(winner)
  \/ Len(opponents) # 2

\* Register without the test `name not in teams`
RECURSIVE RegisterAlways(_, _)
RegisterAlways(st, opponents) ==
  IF opponents = <<>> THEN st
  ELSE LET name == NameOf(Head(opponents))
           nxt == [st EXCEPT !.teams = Append(@, name),
                             !.wins = SetKey(@, name, 0),
                             !.loses = SetKey(@, name, 0)]
       IN RegisterAlways(nxt, Tail(opponents))

\* for team in opponents: register the name if not seen before
RECURSIVE Register(_, _)
Register(st, opponents) ==
  IF opponents = <<>> THEN st
  ELSE LET name == NameOf(Head(opponents))
           nxt == IF ~Contains(st.teams, name)
                    THEN [st EXCEPT !.teams = Append(@, name),
                                    !.wins = SetKey(@, name, 0),
                                    !.loses = SetKey(@, name, 0)]
                    ELSE st
       IN Register(nxt, Tail(opponents))

\* Tally with the winner-2 branch a copy of the winner-1 branch
TallySwapped(st, winner_index, team1_name, team2_name, winner, match_id) ==
  IF winner_index = 1 \/ winner_index = 2
    THEN LET w == [st EXCEPT !.wins[team1_name] = @ + 1]
         IN [w EXCEPT !.loses[team2_name] = @ + 1]
  ELSE [st EXCEPT !.out = Append(@, [text |-> "Unexpected winner value",
                                      match_id |-> match_id, winner |-> winner])]

\* Tally with the loss of the winner-2 branch forgotten
TallyLossForgotten(st, winner_index, team1_name, team2_name, winner, match_id) ==
  IF winner_index = 1
    THEN LET w == [st EXCEPT !.wins[team1_name] = @ + 1]
         IN [w EXCEPT !.loses[team2_name] = @ + 1]
  ELSE IF winner_index = 2
    THEN [st EXCEPT !.wins[team2_name] = @ + 1]
  ELSE [st EXCEPT !.out = Append(@, [text |-> "Unexpected winner value",
                                      match_id |-> match_id, winner |-> winner])]

\* the if / elif / else on winner_index
Tally(st, winner_index, team1_name, team2_name, winner, match_id) ==
  IF winner_index = 1
    THEN LET w == [st EXCEPT !.wins[team1_name] = @ + 1]
         IN [w EXCEPT !.loses[team2_name] = @ + 1]
  ELSE IF winner_index = 2
    THEN LET w == [st EXCEPT !.wins[team2_name] = @ + 1]
         IN [w EXCEPT !.loses[team1_name] = @ + 1]
  ELSE [st EXCEPT !.out = Append(@, [text |-> "Unexpected winner value",
                                      match_id |-> match_id, winner |-> winner])]

\* one iteration of the for loop on record match
ProcessMatch(st, match) ==
  LET match_id == match.match2id
      opponents == match.match2opponents
      winner == Get(match.winner, PyStr(<<>>))
      finished == Get(match.finished, PyInt(0))
  IN IF SkipRecord(finished, winner, opponents) THEN st
     ELSE LET reg == Register(st, opponents)
              team1_name == NameOf(opponents[1])
              team2_name == NameOf(opponents[2])
              parsed == IntOf(winner)
          IN IF parsed.exc = ""
               THEN Tally(reg, parsed.val, team1_name, team2_name, winner, match_id)
             ELSE IF parsed.exc \in {"ValueError", "TypeError"}
               THEN [reg EXCEPT !.out = Append(@, [text |-> "Skipping match",
                                                   match_id |-> match_id,
                                                   winner |-> winner])]
             ELSE [reg EXCEPT !.exc = parsed.exc]

\* sort_key with the sign of wins forgotten
sort_key_wins_ascending(team) == <<wins[team], loses[team]>>

\* sort_key without the losses
sort_key_wins_only(team) == <<0 - wins[team], 0>>

\* sort_key(team)
sort_key(team) == <<0 - wins[team], loses[team]>>

KeyLess(a, b) == a[1] < b[1] \/ (a[1] = b[1] /\ a[2] < b[2])

\* sorted(): stable, ascending by key; insertion after the equal keys
RECURSIVE InsertSorted(_, _)
InsertSorted(s, x) ==
  IF s = <<>> THEN <<x>>
  ELSE IF KeyLess(sort_key(x), sort_key(Head(s))) THEN <<x>> \o s
  ELSE <<Head(s)>> \o InsertSorted(Tail(s), x)

RECURSIVE Sorted(_)
Sorted(s) ==
  IF s = <<>> THEN <<>>
  ELSE InsertSorted(Sorted(SubSeq(s, 1, Len(s) - 1)), s[Len(s)])

State == [wins |-> wins, loses |-> loses, teams |-> teams, out |-> out, exc |-> ""]

NoResult ==
  [input |-> <<>>, wins |-> EmptyDict, loses |-> EmptyDict, teams |-> <<>>,
   ranking |-> <<>>]

Start(input) ==
  /\ matches = input
  /\ i = 1
  /\ wins = EmptyDict
  /\ loses = EmptyDict
  /\ teams = <<>>
  /\ out = <<>>
  /\ sorted_teams = <<>>
  /\ pc = "loop"
  /\ run = 1
  /\ first = NoResult

Init ==
  /\ \E input \in SeqsUpTo(Records, MaxLen) : Start(input)
  /\ other = <<>>

InitPerm ==
  /\ \E input \in SeqsUpTo(PermRecords, MaxPermLen) : Start(input)
  /\ other \in Shuffles(matches)

\* for match in matches: ...
LoopBody ==
  /\ pc = "loop"
  /\ i <= Len(matches)
  /\ LET st == ProcessMatch(State, matches[i])
     IN /\ wins' = st.wins
        /\ loses' = st.loses
        /\ teams' = st.teams
        /\ out' = st.out
        /\ IF st.exc = "" THEN i' = i + 1 /\ pc' = pc
                          ELSE i' = i /\ pc' = "aborted"
  /\ UNCHANGED <<matches, sorted_teams, run, other, first>>

\* sorted_teams = sorted(teams, key=sort_key)
Rank ==
  /\ pc = "loop"
  /\ i > Len(matches)
  /\ sorted_teams' = Sorted(teams)
  /\ pc' = "done"
  /\ UNCHANGED <<matches, i, wins, loses, teams, out, run, other, first>>

\* the script is run again on the other input
Rerun ==
  /\ pc = "done"
  /\ run = 1
  /\ first' = [input |-> matches, wins |-> wins, loses |-> loses, teams |-> teams,
               ranking |-> sorted_teams]
  /\ matches' = other
  /\ i' = 1
  /\ wins' = EmptyDict
  /\ loses' = EmptyDict
  /\ teams' = <<>>
  /\ out' = <<>>
  /\ sorted_teams' = <<>>
  /\ pc' = "loop"
  /\ run' = 2
  /\ UNCHANGED other

Next == LoopBody \/ Rank

NextPerm == LoopBody \/ Rank \/ Rerun

Spec == Init /\ [][Next]_vars

SpecPerm == InitPerm /\ [][NextPerm]_vars

----------------------------------------------------------------------------
(* Vocabulary of the properties *)

\* a counter, 0 for a name that has none
Cnt(d, nm) == IF nm \in DOMAIN d THEN d[nm] ELSE 0

Pos(s, x) == CHOOSE k \in 1..Len(s) : s[k] = x

Elems(s) == { s[k] : k \in 1..Len(s) }

RECURSIVE SumOver(_, _)
SumOver(d, S) ==
  IF S = {} THEN 0
  ELSE LET x == CHOOSE y \in S : TRUE IN d[x] + SumOver(d, S \ {x})

Total(d) == SumOver(d, DOMAIN d)

ResolvedNames(r) ==
  { NameOf(r.match2opponents[k]) : k \in 1..Len(r.match2opponents) }

IsFinished(r) == r.finished.t \notin {"absent", "none"} /\ Truthy(r.finished)

TwoOpponents(r) == Len(r.match2opponents) = 2

\* the winner key is missing, null or the empty string
WinnerAbsentOrEmpty(r) ==
  \/ r.winner.t \in {"absent", "none"}
  \/ r.winner.t = "str" /\ r.winner.s = <<>>

\* the winner indicator parses to the integer k
WinnerParsesTo(r, k) ==
  /\ ~WinnerAbsentOrEmpty(r)
  /\ IntOf(r.winner).exc = ""
  /\ IntOf(r.winner).val = k

\* finished, two opponents, winner 1 or 2
Counted(r) ==
  IsFinished(r) /\ TwoOpponents(r) /\ (WinnerParsesTo(r, 1) \/ WinnerParsesTo(r, 2))

\* finished, two opponents, a winner that is present but neither 1 nor 2
Malformed(r) ==
  /\ IsFinished(r) /\ TwoOpponents(r) /\ ~WinnerAbsentOrEmpty(r)
  /\ ~WinnerParsesTo(r, 1) /\ ~WinnerParsesTo(r, 2)

\* the loop is about to process record matches[i]
AtRecord == pc = "loop" /\ i <= Len(matches)

CountersUnchanged ==
  \A nm \in TeamNames :
    Cnt(wins', nm) = Cnt(wins, nm) /\ Cnt(loses', nm) = Cnt(loses, nm)

\* the run of the loop over a whole list, from the empty state
RECURSIVE RunFrom(_, _)
RunFrom(st, ms) ==
  IF ms = <<>> \/ st.exc # "" THEN st
  ELSE RunFrom(ProcessMatch(st, Head(ms)), Tail(ms))

EmptyState ==
  [wins |-> EmptyDict, loses |-> EmptyDict, teams |-> <<>>, out |-> <<>>, exc |-> ""]

----------------------------------------------------------------------------
(* Properties *)

\* C1: for every registered team, wins + losses is at most the number of
\* processed records that are finished, have two opponents and list the team,
\* also when both opponents resolve to the same name.
C1_TallyWithinParticipation ==
  \A nm \in DOMAIN wins :
    wins[nm] + loses[nm] <=
      Cardinality({ k \in 1..(i - 1) :
                      /\ IsFinished(matches[k])
                      /\ TwoOpponents(matches[k])
                      /\ nm \in ResolvedNames(matches[k]) })

\* C2: a finished two-opponent record whose winner parses to 1 adds one win to
\* the first opponent and one loss to the second and changes no other counter;
\* with winner 2 the roles are exchanged.
C2_TallyEffect ==
  [][ (AtRecord /\ Counted(matches[i])) =>
        LET r == matches[i]
            n1 == NameOf(r.match2opponents[1])
            n2 == NameOf(r.match2opponents[2])
            won == IF WinnerParsesTo(r, 1) THEN n1 ELSE n2
            lost == IF WinnerParsesTo(r, 1) THEN n2 ELSE n1
        IN \A nm \in TeamNames :
             /\ Cnt(wins', nm) = Cnt(wins, nm) + (IF nm = won THEN 1 ELSE 0)
             /\ Cnt(loses', nm) = Cnt(loses, nm) + (IF nm = lost THEN 1 ELSE 0) ]_vars

C2_Witness ==
  /\ pc = "loop" /\ i = 3
  /\ Counted(matches[1]) /\ WinnerParsesTo(matches[1], 1)
  /\ Counted(matches[2]) /\ WinnerParsesTo(matches[2], 2)
  /\ matches[1].match2opponents = <<Named("A"), Named("B")>>
  /\ matches[2].match2opponents = <<Named("A"), Anon>>
  /\ wins = [nm \in {"A", "B", "Unknown"} |-> IF nm = "B" THEN 0 ELSE 1]
  /\ loses = [nm \in {"A", "B", "Unknown"} |-> IF nm = "Unknown" THEN 0 ELSE 1]

\* C3: a record that is not finished, or has no winner indicator, or does not
\* have exactly two opponents leaves wins, losses, the registered teams and
\* the diagnostics unchanged, whatever its other fields hold.
C3_SkipLeavesStateUnchanged ==
  [][ (AtRecord /\ ( \/ ~IsFinished(matches[i])
                     \/ WinnerAbsentOrEmpty(matches[i])
                     \/ ~TwoOpponents(matches[i]) )) =>
        (UNCHANGED <<wins, loses, teams, out>> /\ pc' = "loop" /\ i' = i + 1) ]_vars

C3_Witness ==
  /\ pc = "loop" /\ i = 3
  /\ Len(matches[1].match2opponents) = 3
  /\ matches[1].winner = PyStr(<<"a", "b", "c">>)
  /\ ~IsFinished(matches[2]) /\ WinnerParsesTo(matches[2], 1)
  /\ teams = <<>> /\ out = <<>> /\ wins = EmptyDict /\ loses = EmptyDict

\* C4: a finished two-opponent record whose winner indicator is present but
\* is neither 1 nor 2 changes no counter and emits exactly one diagnostic
\* naming the record's match identifier and its raw winner value.
C4_MalformedWinnerDiagnosed ==
  [][ (AtRecord /\ Malformed(matches[i])) =>
        /\ CountersUnchanged
        /\ \E text \in {"Unexpected winner value", "Skipping match"} :
             out' = Append(out, [text |-> text,
                                 match_id |-> matches[i].match2id,
                                 winner |-> matches[i].winner]) ]_vars

\* C5: the final wins and losses are the same for every permutation of the
\* input records.
C5_TalliesPermutationInvariant ==
  (run = 2 /\ pc = "done") => (wins = first.wins /\ loses = first.loses)

C5_Witness ==
  /\ run = 2 /\ pc = "done"
  /\ Len(matches) = 3
  /\ matches # first.input
  /\ \E nm \in DOMAIN wins : wins[nm] = 2
  /\ \E nm \in DOMAIN wins : wins[nm] = 1 /\ loses[nm] = 1

\* C6: in the ranking, a team placed before another has more wins, or the
\* same wins and no more losses; a team with more wins, or the same wins and
\* fewer losses, is placed before the other.
C6_RankingOrder ==
  pc = "done" =>
    /\ \A a, b \in 1..Len(sorted_teams) :
         a < b =>
           LET X == sorted_teams[a]
               Y == sorted_teams[b]
           IN \/ wins[X] > wins[Y]
              \/ wins[X] = wins[Y] /\ loses[X] <= loses[Y]
    /\ \A X, Y \in Elems(teams) :
         ( \/ wins[X] > wins[Y]
           \/ wins[X] = wins[Y] /\ loses[X] < loses[Y] ) =>
           /\ X \in Elems(sorted_teams) /\ Y \in Elems(sorted_teams)
           /\ Pos(sorted_teams, X) < Pos(sorted_teams, Y)

C6_Witness ==
  /\ pc = "done"
  /\ Len(sorted_teams) = 3
  /\ wins[sorted_teams[1]] > wins[sorted_teams[2]]
  /\ wins[sorted_teams[2]] = wins[sorted_teams[3]]
  /\ loses[sorted_teams[2]] < loses[sorted_teams[3]]
  /\ Pos(teams, sorted_teams[3]) < Pos(teams, sorted_teams[1])

\* C7 as stated: the ranking is the same sequence for every permutation of
\* the input records, ties included.
C7_RankingPermutationInvariant ==
  (run = 2 /\ pc = "done") => sorted_teams = first.ranking

Tied(X, Y) == wins[X] = wins[Y] /\ loses[X] = loses[Y]

\* C7 as amended: for every permutation of the input records the ranking has
\* the same teams, the same (wins, losses) at every rank, and the same
\* relative order of every two teams not tied on both wins and losses; teams
\* tied on both are ranked in the order of their first appearance.
C7_RankingInvariantUpToTies ==
  (run = 2 /\ pc = "done") =>
    /\ Len(sorted_teams) = Len(first.ranking)
    /\ Elems(sorted_teams) = Elems(first.ranking)
    /\ \A k \in 1..Len(sorted_teams) :
         /\ wins[sorted_teams[k]] = first.wins[first.ranking[k]]
         /\ loses[sorted_teams[k]] = first.loses[first.ranking[k]]
    /\ \A X, Y \in Elems(sorted_teams) :
         IF Tied(X, Y)
           THEN (Pos(sorted_teams, X) < Pos(sorted_teams, Y))
                  <=> (Pos(teams, X) < Pos(teams, Y))
           ELSE (Pos(sorted_teams, X) < Pos(sorted_teams, Y))
                  <=> (Pos(first.ranking, X) < Pos(first.ranking, Y))

C7_Witness ==
  /\ run = 2 /\ pc = "done"
  /\ sorted_teams # first.ranking
  /\ Len(sorted_teams) = 3
  /\ \E X, Y \in Elems(sorted_teams) : X # Y /\ Tied(X, Y)
  /\ \E X, Y \in Elems(sorted_teams) : ~Tied(X, Y)

\* C8: the ranking lists each team once, and its names are exactly the
\* resolved opponent names of the records that are finished, have a winner
\* indicator present and have two opponents; teams seen only in records with
\* a malformed winner stand at 0 wins and 0 losses.
C8_RankingNames ==
  pc = "done" =>
    /\ \A a, b \in 1..Len(sorted_teams) : sorted_teams[a] = sorted_teams[b] => a = b
    /\ Elems(sorted_teams) =
         UNION { ResolvedNames(matches[k]) :
                   k \in { j \in 1..Len(matches) :
                             /\ IsFinished(matches[j])
                             /\ ~WinnerAbsentOrEmpty(matches[j])
                             /\ TwoOpponents(matches[j]) } }
    /\ \A nm \in Elems(sorted_teams) :
         (\A k \in 1..Len(matches) :
            nm \in ResolvedNames(matches[k]) => ~Counted(matches[k]))
           => wins[nm] = 0 /\ loses[nm] = 0

\* C9: the run never aborts, and ends with the tallies of the input from
\* which the skipped records are removed.
C9_NeverAbortsAndSkipsAreNeutral ==
  /\ pc # "aborted"
  /\ pc = "done" =>
       LET kept == RunFrom(EmptyState, SelectSeq(matches, Counted))
       IN \A nm \in TeamNames :
            Cnt(wins, nm) = Cnt(kept.wins, nm) /\ Cnt(loses, nm) = Cnt(kept.loses, nm)

\* C10: after any prefix, total wins = total losses = the number of processed
\* records that are finished, have two opponents and a winner of 1 or 2;
\* wins and losses have exactly the registered names as keys, and no counter
\* is negative.
C10_TotalsMatchCountedRecords ==
  LET counted == Cardinality({ k \in 1..(i - 1) : Counted(matches[k]) })
  IN /\ Total(wins) = counted
     /\ Total(loses) = counted
     /\ DOMAIN wins = Elems(teams)
     /\ DOMAIN loses = Elems(teams)
     /\ \A nm \in DOMAIN wins : wins[nm] \in Nat /\ loses[nm] \in Nat

C10_Witness ==
  /\ pc = "loop" /\ i = 4
  /\ matches[1] = matches[2]
  /\ Counted(matches[1])
  /\ Malformed(matches[3])
  /\ Total(wins) = 2
  /\ Len(teams) = 4

=============================================================================
